---- MODULE Spec2Model ----
(***************************************************************************)
(* Login throttling of authentication-controller.js: the login handler,   *)
(* the two module-level maps loginAttempts and lastLoginAttemptTime, the   *)
(* penalty timer and the credential verifier it awaits; and createTransfer *)
(* of users-service.js with the transfers collection it writes to.         *)
(*                                                                         *)
(* Time is in milliseconds, as Date.now() and setTimeout use it.  An       *)
(* e-mail is a sequence of characters.  A map of the program is a function *)
(* whose DOMAIN is the set of keys present in the object.                  *)
(***************************************************************************)
EXTENDS Integers, Sequences, FiniteSets, TLC

----------------------------------------------------------------------------
(* Bounds of the model *)

\* login() invocations that can be suspended at an await at the same time
MaxReqs == 2
\* number of clock advances in one behaviour
MaxTicks == 2
\* Date.now() when the process starts (any positive instant)
StartTime == 1000
\* login calls in one behaviour of the two-identity specification
MaxLogins == 2
\* createTransfer calls in one behaviour of the transfer specification
MaxTransfers == 3

----------------------------------------------------------------------------
(* Program constants *)

MAX_LOGIN_ATTEMPTS == 4
LOGIN_TIMEOUT == 30 * 60 * 1000
PENALTY_DELAY == 1 * 60 * 1000
\* the literal 5 of the two log messages
LogBase == 5

----------------------------------------------------------------------------
(* Inputs *)

\* request.body.email as submitted
Emails == { <<"A", "@", "x">>, <<"a", "@", "x">>, <<"b", "@", "x">> }
\* the amounts by which the clock is seen to advance between two events
TickSteps == { PENALTY_DELAY, LOGIN_TIMEOUT, LOGIN_TIMEOUT + PENALTY_DELAY }
\* the e-mail of the one-identity specification
OneEmail == { <<"a", "@", "x">> }
\* the two identities of Emails, as the program stores them
Identities == { <<"a", "@", "x">>, <<"b", "@", "x">> }
Reqs == 1 .. MaxReqs
NoEmail == << >>

----------------------------------------------------------------------------
(* Pure parts of login() *)

LowerChar(c) ==
    CASE c = "A" -> "a"
      [] c = "B" -> "b"
      [] c = "X" -> "x"
      [] OTHER -> c

toLowerCaseKeep(s) == s

\* String.prototype.toLowerCase
toLowerCase(s) == [i \in DOMAIN s |-> LowerChar(s[i])]

\* loginAttempts[key] || 0
Attempts(la, k) == IF k \in DOMAIN la /\ la[k] # 0 THEN la[k] ELSE 0

RemainingAttemptsEarly(attempts) == MAX_LOGIN_ATTEMPTS - attempts - 1

\* MAX_LOGIN_ATTEMPTS - attempts
RemainingAttempts(attempts) == MAX_LOGIN_ATTEMPTS - attempts

IsStaleNever(lt, k, now) == FALSE

\* lastLoginAttemptTime[key] && now - lastLoginAttemptTime[key] > LOGIN_TIMEOUT
IsStale(lt, k, now) ==
    /\ k \in DOMAIN lt
    /\ lt[k] # 0
    /\ now - lt[k] > LOGIN_TIMEOUT

\* remainingAttempts <= 0
IsLocked(remaining) == remaining <= 0

\* the figure both log messages print: 5 - remainingAttempts
LoggedAttempts(remaining) == LogBase - remaining

NewCountFromSnapshot(la, rq) == rq.attempts + 1

NewCountPrecedence(la, rq) ==
    IF Attempts(la, rq.key) # 0 THEN Attempts(la, rq.key) ELSE 1

\* (loginAttempts[key] || 0) + 1
NewCount(la, rq) == Attempts(la, rq.key) + 1

\* obj[key] = v
Put(m, k, v) == [x \in DOMAIN m \cup {k} |-> IF x = k THEN v ELSE m[x]]

DeleteKeyAll(m, k) == [x \in {} |-> 0]

DeleteKeyNone(m, k) == m

\* delete obj[key]
DeleteKey(m, k) == [x \in DOMAIN m \ {k} |-> m[x]]

EnterDelayClears(la, k) == DeleteKey(la, k)

\* lines 37-41: what the lockout path does to loginAttempts before it awaits
\* its timer: nothing, the delete of line 42 comes after the await
EnterDelay(la, k) == la

----------------------------------------------------------------------------
(* State *)

VARIABLES
    loginAttempts,          \* let loginAttempts = {}: key -> failed attempts
    lastLoginAttemptTime,   \* let lastLoginAttemptTime = {}: key -> instant
    clock,                  \* what Date.now() returns
    ticks,                  \* clock advances so far
    budget,                 \* login calls still to come (two-identity specification)
    req,                    \* the suspended invocations of login() and their locals
    lastResult,             \* per key, what the last finished login() answered and logged
    streak,                 \* per key, failing attempts of the current one-after-another run
    batch,                  \* per key, failures of the current overlapping run
    transfers,              \* the documents of the transfers collection
    calls,                  \* createTransfer calls so far
    lastTransfer            \* what the last createTransfer call was given and returned

vars == << loginAttempts, lastLoginAttemptTime, clock, ticks, budget, req,
           lastResult, streak, batch, transfers, calls, lastTransfer >>

\* the variables of the login handler
loginVars == << loginAttempts, lastLoginAttemptTime, clock, ticks, budget, req,
                lastResult, streak, batch >>

\* the variables of createTransfer
transferVars == << transfers, calls, lastTransfer >>

\* no createTransfer call has returned yet
NoTransfer ==
    [ transferId |-> 0, id |-> "none", toUserId |-> "none", returned |-> "none" ]

\* an invocation slot that is not running login()
Idle ==
    [ pc |-> "idle", email |-> NoEmail, key |-> NoEmail, attempts |-> 0,
      remainingAttempts |-> 0, now |-> 0, wake |-> 0,
      stale |-> FALSE, alone |-> FALSE, forgiven |-> -1, beside |-> FALSE ]

NoResult ==
    [ out |-> "none", email |-> NoEmail, before |-> 0, after |-> 0,
      reported |-> 0, stale |-> FALSE, alone |-> FALSE, forgiven |-> -1,
      beside |-> FALSE, prev |-> "none" ]

InFlight(q) == req[q].pc # "idle"

\* no invocation of login() for key k is suspended
Quiet(k) == \A q \in Reqs : InFlight(q) => req[q].key # k

\* a request of an identity other than k, arrived at `since` or before, is on
\* the lockout path and its timer is not due yet
WaitingBeside(k, since) ==
    \E q \in Reqs :
        /\ req[q].pc = "delay"
        /\ req[q].key # k
        /\ req[q].now <= since
        /\ clock < req[q].wake

\* more than LOGIN_TIMEOUT has passed since the instant stored for k
Elapsed(k) ==
    /\ k \in DOMAIN lastLoginAttemptTime
    /\ clock - lastLoginAttemptTime[k] > LOGIN_TIMEOUT

\* the state after construction: both maps are empty objects
Init ==
    /\ loginAttempts = << >>
    /\ lastLoginAttemptTime = << >>
    /\ clock = StartTime
    /\ ticks = 0
    /\ budget = 0
    /\ req = [q \in Reqs |-> Idle]
    /\ lastResult = [k \in Emails |-> NoResult]
    /\ streak = [k \in Emails |-> -1]
    /\ batch = [k \in Emails |-> -1]
    /\ transfers = {}
    /\ calls = 0
    /\ lastTransfer = NoTransfer

\* what c failed logins for k, made one after another at StartTime, leave behind
ResultAfter(k, c) ==
    IF c = 0 THEN NoResult
    ELSE [ out |-> "Rejected", email |-> k, before |-> c - 1, after |-> c,
           reported |-> c, stale |-> FALSE, alone |-> TRUE,
           forgiven |-> -1, beside |-> FALSE,
           prev |-> IF c = 1 THEN "none" ELSE "Rejected" ]

\* the states in which each identity has failed 0 .. MAX_LOGIN_ATTEMPTS times
InitPair ==
    /\ clock = StartTime
    /\ ticks = 0
    /\ budget = MaxLogins
    /\ req = [q \in Reqs |-> Idle]
    /\ transfers = {}
    /\ calls = 0
    /\ lastTransfer = NoTransfer
    /\ \E prior \in [Identities -> 0 .. MAX_LOGIN_ATTEMPTS] :
          LET failed == { k \in Identities : prior[k] > 0 }
              P(k) == IF k \in Identities THEN prior[k] ELSE 0
          IN  /\ loginAttempts = [k \in failed |-> prior[k]]
              /\ lastLoginAttemptTime = [k \in failed |-> StartTime]
              /\ lastResult = [k \in Emails |-> ResultAfter(k, P(k))]
              /\ streak = [k \in Emails |-> IF P(k) > 0 THEN P(k) ELSE -1]
              /\ batch = [k \in Emails |-> IF P(k) = 1 THEN 1 ELSE -1]

----------------------------------------------------------------------------
(* login(): from the call to its first await: lines 20-41.  The call takes  *)
(* the lowest free slot (invocations have no identity of their own), and no *)
(* call is admitted after the last clock advance, so that the timer of a    *)
(* call on the lockout path can always fire.                                *)

StartLogin(r, email) ==
    /\ ~InFlight(r)
    /\ \A q \in Reqs : q < r => InFlight(q)
    /\ ticks < MaxTicks
    /\ LET key == toLowerCase(email)
           attempts == Attempts(loginAttempts, key)
           remainingAttempts == RemainingAttempts(attempts)
           now == clock
           quiet == Quiet(key)
           clean == key \notin DOMAIN loginAttempts
           checked == IF IsStale(lastLoginAttemptTime, key, now)
                      THEN Put(loginAttempts, key, 0)
                      ELSE loginAttempts
       IN  /\ loginAttempts' =
                IF IsLocked(remainingAttempts)
                THEN EnterDelay(checked, key)
                ELSE checked
           /\ req' = [q \in Reqs |->
                IF q = r
                THEN [ pc |-> IF IsLocked(remainingAttempts) THEN "delay" ELSE "verify",
                       email |-> email, key |-> key, attempts |-> attempts,
                       remainingAttempts |-> remainingAttempts, now |-> now,
                       wake |-> IF IsLocked(remainingAttempts)
                                THEN now + PENALTY_DELAY ELSE 0,
                       stale |-> Elapsed(key), alone |-> quiet,
                       forgiven |-> IF Elapsed(key) THEN streak[key] ELSE -1,
                       beside |-> WaitingBeside(key, now) ]
                ELSE IF InFlight(q) /\ req[q].key = key
                     THEN [req[q] EXCEPT !.alone = FALSE]
                     ELSE req[q]]
           /\ streak' = [streak EXCEPT ![key] =
                IF quiet /\ clean THEN 0
                ELSE IF ~quiet \/ Elapsed(key) THEN -1
                ELSE @]
           /\ batch' = [batch EXCEPT ![key] =
                IF quiet /\ clean THEN 0
                ELSE IF @ >= 0 /\ attempts = 0 THEN @
                ELSE -1]
    /\ UNCHANGED << lastLoginAttemptTime, clock, ticks, lastResult >>

\* the answer of invocation r: next(error) or response.status(200)
Respond(r, out, la) ==
    LET rq == req[r]
    IN  /\ req' = [req EXCEPT ![r] = Idle]
        /\ lastResult' = [lastResult EXCEPT ![rq.key] =
              [ out |-> out, email |-> rq.email, before |-> rq.attempts,
                after |-> Attempts(la, rq.key),
                reported |-> IF out \in {"Rejected", "Locked"}
                             THEN LoggedAttempts(rq.remainingAttempts) ELSE 0,
                stale |-> rq.stale, alone |-> rq.alone, forgiven |-> rq.forgiven,
                beside |-> rq.beside /\ WaitingBeside(rq.key, rq.now),
                prev |-> lastResult[rq.key].out ]]
        /\ streak' = [streak EXCEPT ![rq.key] =
              IF out \in {"Rejected", "Locked"} /\ @ >= 0 THEN @ + 1 ELSE -1]
        /\ batch' = [batch EXCEPT ![rq.key] =
              IF out = "Rejected" /\ @ >= 0 THEN @ + 1 ELSE -1]

DelayDoneEarly(r) ==
    /\ req[r].pc = "delay"
    /\ loginAttempts' = DeleteKey(loginAttempts, req[r].key)
    /\ Respond(r, "Locked", loginAttempts')
    /\ UNCHANGED << lastLoginAttemptTime, clock, ticks >>

DelayDoneKeepsRecord(r) ==
    /\ req[r].pc = "delay"
    /\ clock >= req[r].wake
    /\ loginAttempts' = loginAttempts
    /\ Respond(r, "Locked", loginAttempts')
    /\ UNCHANGED << lastLoginAttemptTime, clock, ticks >>

(* login(): the lockout path after its timer has fired *)
DelayDone(r) ==
    /\ req[r].pc = "delay"
    /\ clock >= req[r].wake
    /\ loginAttempts' = DeleteKey(loginAttempts, req[r].key)
    /\ Respond(r, "Locked", loginAttempts')
    /\ UNCHANGED << lastLoginAttemptTime, clock, ticks >>

VerifyWrongAfterDelays(r) ==
    /\ req[r].pc = "verify"
    /\ \A q \in Reqs : req[q].pc # "delay"
    /\ loginAttempts' = Put(loginAttempts, req[r].key, NewCount(loginAttempts, req[r]))
    /\ lastLoginAttemptTime' = Put(lastLoginAttemptTime, req[r].key, req[r].now)
    /\ Respond(r, "Rejected", loginAttempts')
    /\ UNCHANGED << clock, ticks >>

(* login(): checkLoginCredentials resolved to a falsy value *)
VerifyWrong(r) ==
    /\ req[r].pc = "verify"
    /\ loginAttempts' = Put(loginAttempts, req[r].key, NewCount(loginAttempts, req[r]))
    /\ lastLoginAttemptTime' = Put(lastLoginAttemptTime, req[r].key, req[r].now)
    /\ Respond(r, "Rejected", loginAttempts')
    /\ UNCHANGED << clock, ticks >>

(* login(): checkLoginCredentials resolved to a truthy value *)
VerifyOk(r) ==
    /\ req[r].pc = "verify"
    /\ loginAttempts' = DeleteKey(loginAttempts, req[r].key)
    /\ Respond(r, "Authenticated", loginAttempts')
    /\ UNCHANGED << lastLoginAttemptTime, clock, ticks >>

(* login(): checkLoginCredentials rejected, the catch block forwards the error *)
VerifyThrows(r) ==
    /\ req[r].pc = "verify"
    /\ Respond(r, "Error", loginAttempts)
    /\ UNCHANGED << loginAttempts, lastLoginAttemptTime, clock, ticks >>

(* Time passes *)
Tick(d) ==
    /\ ticks < MaxTicks
    /\ clock' = clock + d
    /\ ticks' = ticks + 1
    /\ UNCHANGED << loginAttempts, lastLoginAttemptTime, req, lastResult,
                    streak, batch >>

Next ==
    \/ \E r \in Reqs, email \in OneEmail : StartLogin(r, email) /\ UNCHANGED << budget, transferVars >>
    \/ \E r \in Reqs : DelayDone(r) /\ UNCHANGED << budget, transferVars >>
    \/ \E r \in Reqs : VerifyWrong(r) /\ UNCHANGED << budget, transferVars >>
    \/ \E r \in Reqs : VerifyOk(r) /\ UNCHANGED << budget, transferVars >>
    \/ \E r \in Reqs : VerifyThrows(r) /\ UNCHANGED << budget, transferVars >>
    \/ \E d \in TickSteps : Tick(d) /\ UNCHANGED << budget, transferVars >>

\* one identity, any number of login calls
Spec == Init /\ [][Next]_vars

\* the event loop runs what is ready: time passes, a timer that is due fires
\* (line 41), and the awaited verifier settles (line 50)
Fair ==
    /\ WF_vars(\E d \in TickSteps : Tick(d) /\ UNCHANGED << budget, transferVars >>)
    /\ \A r \in Reqs :
          WF_vars(DelayDone(r) /\ UNCHANGED << budget, transferVars >>)
    /\ \A r \in Reqs :
          WF_vars((VerifyWrong(r) \/ VerifyOk(r) \/ VerifyThrows(r))
                      /\ UNCHANGED << budget, transferVars >>)

\* one identity, timers and verifier replies are not postponed for ever
SpecFair == Init /\ [][Next]_vars /\ Fair

NextPair ==
    \/ \E r \in Reqs, email \in Emails :
          StartLogin(r, email) /\ budget > 0 /\ budget' = budget - 1
             /\ UNCHANGED transferVars
    \/ \E r \in Reqs : DelayDone(r) /\ UNCHANGED << budget, transferVars >>
    \/ \E r \in Reqs : VerifyWrong(r) /\ UNCHANGED << budget, transferVars >>
    \/ \E r \in Reqs : VerifyOk(r) /\ UNCHANGED << budget, transferVars >>
    \/ \E r \in Reqs : VerifyThrows(r) /\ UNCHANGED << budget, transferVars >>
    \/ \E d \in TickSteps : Tick(d) /\ UNCHANGED << budget, transferVars >>

\* two identities, one of them under two spellings, MaxLogins login calls
SpecPair == InitPair /\ [][NextPair]_vars

----------------------------------------------------------------------------
(* createTransfer() of users-service.js.  The repository it calls keeps the *)
(* users and the transfers collections; a user document is stood for by its *)
(* id, null by "null".                                                      *)

\* the ids of the user documents that exist
Users == {"u1", "u2"}

\* the ids a caller passes for the sender and the recipient
UserIds == Users \cup {"u9"}

\* the amounts a caller passes
Amounts == {10, 20}

\* how the awaited repository calls of one createTransfer call end
RepoOutcomes == {"resolves", "rejects"}

\* usersRepository.getUser: the document, or null when there is none
getUser(id) == IF id \in Users THEN id ELSE "null"

\* usersRepository.createTransfer: one more document in the collection
RepoCreateTransfer(coll, transferId, fromUser, toUser, amount, timestamp) ==
    coll \cup { [ transferId |-> transferId, fromUser |-> fromUser,
                  toUser |-> toUser, amount |-> amount, timestamp |-> timestamp ] }

\* createTransfer(id, toUserId, amount): the document is created before the
\* two users are tested; any awaited call that rejects ends in the catch block
createTransfer(id, toUserId, amount, repo) ==
    /\ calls < MaxTransfers
    /\ calls' = calls + 1
    /\ LET transferId == calls + 1
           timestamp == clock
           toUser == getUser(toUserId)
           fromUser == getUser(id)
           returned == IF repo = "rejects" THEN "null"
                       ELSE IF toUser = "null" THEN "null"
                       ELSE IF fromUser = "null" THEN "null"
                       ELSE "true"
       IN  /\ transfers' =
                IF repo = "rejects" THEN transfers
                ELSE RepoCreateTransfer(transfers, transferId, fromUser, toUser,
                                        amount, timestamp)
           /\ lastTransfer' = [ transferId |-> transferId, id |-> id,
                                toUserId |-> toUserId, returned |-> returned ]

NextTransfer ==
    \E id \in UserIds, toUserId \in UserIds, amount \in Amounts, repo \in RepoOutcomes :
        createTransfer(id, toUserId, amount, repo) /\ UNCHANGED loginVars

\* createTransfer calls only, MaxTransfers of them
SpecTransfer == Init /\ [][NextTransfer]_vars

TypeOK ==
    /\ DOMAIN loginAttempts \subseteq Emails
    /\ \A k \in DOMAIN loginAttempts : loginAttempts[k] \in Nat
    /\ DOMAIN lastLoginAttemptTime \subseteq Emails
    /\ clock \in Nat
    /\ ticks \in 0 .. MaxTicks
    /\ \A q \in Reqs : req[q].pc \in {"idle", "verify", "delay"}
    /\ calls \in 0 .. MaxTransfers
    /\ Cardinality(transfers) <= calls
    /\ lastTransfer.returned \in {"none", "null", "true"}

----------------------------------------------------------------------------
(* Vocabulary of the properties *)

Res(k) == lastResult[k]

Failing == {"Rejected", "Locked"}

UpperChars == {"A", "B", "X"}

IsLowerCase(s) == \A i \in DOMAIN s : s[i] \notin UpperChars

UpperChar(c) ==
    CASE c = "a" -> "A"
      [] c = "b" -> "B"
      [] c = "x" -> "X"
      [] OTHER -> c

\* the two strings differ at most in letter case
EqualIgnoreCase(s, t) ==
    /\ Len(s) = Len(t)
    /\ \A i \in DOMAIN s : UpperChar(s[i]) = UpperChar(t[i])

\* what a map holds for k: whether the key is present, and its value
Entry(m, k) == IF k \in DOMAIN m THEN << TRUE, m[k] >> ELSE << FALSE, 0 >>

----------------------------------------------------------------------------
(* Properties *)

\* C1 as stated: of the failing attempts made on one identity one after another
\* from CLEAN, without staleness, the first three are Rejected(1), Rejected(2),
\* Rejected(3) and the MAX_LOGIN_ATTEMPTS-th (4th) is Locked.
C1_LockedAtFourth ==
    \A k \in Emails :
        /\ streak[k] \in 1 .. MAX_LOGIN_ATTEMPTS - 1 =>
              Res(k).out = "Rejected" /\ Res(k).after = streak[k]
        /\ streak[k] = MAX_LOGIN_ATTEMPTS => Res(k).out = "Locked"

\* C1 amended: of the failing attempts made on one identity one after another
\* from CLEAN, without staleness, the first MAX_LOGIN_ATTEMPTS (4) are
\* Rejected(1) .. Rejected(4) and the next one (the 5th) is Locked; the run
\* ends there.
C1_LockedAtFifth ==
    \A k \in Emails :
        /\ streak[k] <= MAX_LOGIN_ATTEMPTS + 1
        /\ streak[k] \in 1 .. MAX_LOGIN_ATTEMPTS =>
              Res(k).out = "Rejected" /\ Res(k).after = streak[k]
        /\ streak[k] = MAX_LOGIN_ATTEMPTS + 1 => Res(k).out = "Locked"

C1_Witness ==
    \E k \in Emails :
        /\ streak[k] = MAX_LOGIN_ATTEMPTS + 1
        /\ Res(k).out = "Locked"
        /\ Res(k).before = MAX_LOGIN_ATTEMPTS

\* C2: an attempt that arrives more than LOGIN_TIMEOUT after the stored instant,
\* at any stored count 1 .. MAX_LOGIN_ATTEMPTS, is not Locked (the verifier is
\* asked) and, if it fails with no other request for the identity around,
\* leaves the count at 1.
C2_StalenessForgiveness ==
    \A k \in Emails :
        (Res(k).stale /\ Res(k).before \in 1 .. MAX_LOGIN_ATTEMPTS) =>
            /\ Res(k).out # "Locked"
            /\ (Res(k).out = "Rejected" /\ Res(k).alone) => Res(k).after = 1

\* C3: once a request has answered Locked and no request for the identity is
\* in flight the count is absent; the attempt that follows it alone is not
\* Locked and, if it fails, starts from 0 and is failure number 1.
C3_PostTripReset ==
    \A k \in Emails :
        /\ (Res(k).out = "Locked" /\ Quiet(k)) => k \notin DOMAIN loginAttempts
        /\ (Res(k).prev = "Locked" /\ Res(k).alone) =>
              /\ Res(k).out # "Locked"
              /\ Res(k).before = 0
              /\ Res(k).out = "Rejected" => Res(k).after = 1

C3_Witness ==
    \E k \in Emails :
        /\ Res(k).prev = "Locked"
        /\ Res(k).alone
        /\ Res(k).out = "Rejected"
        /\ Res(k).after = 1

\* C4: while the requests of an identity all started from a CLEAN record and
\* all that answered failed verification, the stored count is the number of
\* those failures, however the requests overlap.
C4_NoLostUpdate ==
    \A k \in Emails :
        batch[k] >= 0 =>
            /\ batch[k] <= MAX_LOGIN_ATTEMPTS
            /\ Attempts(loginAttempts, k) = batch[k]

C4_Witness ==
    \E k \in Emails :
        /\ batch[k] >= 2
        /\ Quiet(k)
        /\ ~Res(k).alone
        /\ loginAttempts[k] = batch[k]

\* C5: after the k-th of the failing attempts made on one identity one after
\* another from CLEAN, without success or staleness, for k < MAX_LOGIN_ATTEMPTS,
\* the stored count is k and the attempt was Rejected.
C5_MonotonicCounting ==
    \A k \in Emails :
        streak[k] \in 1 .. MAX_LOGIN_ATTEMPTS - 1 =>
            /\ k \in DOMAIN loginAttempts
            /\ loginAttempts[k] = streak[k]
            /\ Res(k).out = "Rejected"

C5_Witness ==
    \E k \in Emails :
        /\ streak[k] = MAX_LOGIN_ATTEMPTS - 1
        /\ loginAttempts[k] = MAX_LOGIN_ATTEMPTS - 1
        /\ Quiet(k)

\* C6: the failing attempt that follows an Authenticated one for the same
\* identity, with no other request for it in between, found a count of 0,
\* leaves the count at 1 and reports attempt 1.
C6_ResetOnSuccess ==
    \A k \in Emails :
        (Res(k).prev = "Authenticated" /\ Res(k).alone /\ Res(k).out \in Failing) =>
            /\ Res(k).out = "Rejected"
            /\ Res(k).before = 0
            /\ Res(k).after = 1
            /\ Res(k).reported = 1

C6_Witness ==
    \E k \in Emails :
        /\ Res(k).prev = "Authenticated"
        /\ Res(k).alone
        /\ Res(k).out = "Rejected"
        /\ Res(k).after = 1
        /\ loginAttempts[k] = 1

C8_IndependentIdentities ==
    [][ \A r \in Reqs :
            req[r].pc # req'[r].pc =>
                LET A == IF InFlight(r) THEN req[r].key ELSE req'[r].key
                IN  \A B \in Emails \ {A} :
                        /\ Entry(loginAttempts', B) = Entry(loginAttempts, B)
                        /\ Entry(lastLoginAttemptTime', B) = Entry(lastLoginAttemptTime, B)
      ]_vars

C8_Witness ==
    \E A \in Emails, B \in Emails :
        /\ A # B
        /\ Res(A).out = "Locked"
        /\ A \notin DOMAIN loginAttempts
        /\ Attempts(loginAttempts, B) > 0
        /\ ~Quiet(B)

\* C9: every record is stored under a lower-case key, the key of a request is
\* its e-mail in lower case, and two requests whose e-mails differ only in
\* letter case use the same key.
C9_IdentityNormalization ==
    /\ \A k \in DOMAIN loginAttempts \cup DOMAIN lastLoginAttemptTime : IsLowerCase(k)
    /\ \A q \in Reqs : InFlight(q) =>
          IsLowerCase(req[q].key) /\ EqualIgnoreCase(req[q].key, req[q].email)
    /\ \A q1 \in Reqs, q2 \in Reqs :
          (InFlight(q1) /\ InFlight(q2) /\ EqualIgnoreCase(req[q1].email, req[q2].email))
              => req[q1].key = req[q2].key
    /\ \A k \in Emails : Res(k).out # "none" => EqualIgnoreCase(k, Res(k).email)

C9_Witness ==
    \E q \in Reqs :
        /\ InFlight(q)
        /\ req[q].email # req[q].key
        /\ req[q].attempts = 1
        /\ Res(req[q].key).email = req[q].key
        /\ Res(req[q].key).out = "Rejected"

\* C10: the stored count of every identity is at least 0 and at most
\* MAX_LOGIN_ATTEMPTS, in every reachable state.
C10_BoundedFailureCount ==
    \A k \in DOMAIN loginAttempts :
        loginAttempts[k] >= 0 /\ loginAttempts[k] <= MAX_LOGIN_ATTEMPTS

\* C11: a login request that found a count of MAX_LOGIN_ATTEMPTS or more is on
\* the lockout path and never at the verifier; it answers only when
\* PENALTY_DELAY has passed since it arrived, its answer is Locked, and its
\* answering step leaves the identity without a count.
C11_LockoutPath ==
    [][ \A r \in Reqs :
            /\ (InFlight(r)' /\ req'[r].attempts >= MAX_LOGIN_ATTEMPTS) =>
                  req'[r].pc = "delay"
            /\ (InFlight(r) /\ req[r].attempts >= MAX_LOGIN_ATTEMPTS
                    /\ ~InFlight(r)') =>
                  /\ clock >= req[r].now + PENALTY_DELAY
                  /\ lastResult'[req[r].key].out = "Locked"
                  /\ req[r].key \notin DOMAIN loginAttempts'
      ]_vars

C11_Witness ==
    \E k \in Emails :
        /\ Res(k).out = "Locked"
        /\ Res(k).before >= MAX_LOGIN_ATTEMPTS
        /\ Res(k).after = 0
        /\ k \notin DOMAIN loginAttempts
        /\ clock >= StartTime + PENALTY_DELAY

\* C12 as stated: a login request that starts while another request for the
\* same identity is waiting in its PENALTY_DELAY is not on the lockout path: it
\* reaches the verifier.
C12_RetryDuringDelay ==
    [][ \A r \in Reqs, q \in Reqs :
            (/\ q # r
             /\ ~InFlight(r) /\ InFlight(r)'
             /\ req[q].pc = "delay"
             /\ req[q].key = req'[r].key) =>
                req'[r].pc = "verify"
      ]_vars

\* C12 amended: the record is cleared when the delay ends, not when it
\* begins: a login request that starts while a request for the same identity,
\* arrived alone and without staleness, is waiting in its PENALTY_DELAY finds
\* the count still at MAX_LOGIN_ATTEMPTS or more and takes the lockout path
\* itself, not reaching the verifier.
C12_RetryDuringDelayLocked ==
    [][ \A r \in Reqs, q \in Reqs :
            (/\ q # r
             /\ ~InFlight(r) /\ InFlight(r)'
             /\ req[q].pc = "delay"
             /\ req[q].alone /\ ~req[q].stale
             /\ req[q].key = req'[r].key) =>
                /\ Attempts(loginAttempts, req[q].key) >= MAX_LOGIN_ATTEMPTS
                /\ req'[r].attempts = Attempts(loginAttempts, req[q].key)
                /\ req'[r].pc = "delay"
      ]_vars

C12_Witness ==
    \E r \in Reqs, q \in Reqs :
        /\ q # r
        /\ req[q].pc = "delay" /\ req[r].pc = "delay"
        /\ req[q].key = req[r].key
        /\ ~req[q].stale /\ ~req[r].stale
        /\ req[q].now < req[r].now
        /\ req[r].attempts >= MAX_LOGIN_ATTEMPTS

\* C13: every answer of a request that was at the verifier, other than
\* Authenticated (the verifier resolved to nothing, or it raised an error),
\* raises the stored count of the identity by exactly one and stores the
\* instant of the request for it.
C13_VerifierFailuresCounted ==
    [][ \A r \in Reqs :
            (/\ req[r].pc = "verify"
             /\ ~InFlight(r)'
             /\ lastResult'[req[r].key].out # "Authenticated") =>
                /\ Attempts(loginAttempts', req[r].key)
                      = Attempts(loginAttempts, req[r].key) + 1
                /\ Entry(lastLoginAttemptTime', req[r].key) = << TRUE, req[r].now >>
      ]_vars

\* C14: the attempts figure a Rejected request logs is the count stored for
\* the identity right after the increment of that request, also when the
\* request made the staleness reset and when requests overlap.
C14_ReportedIsStored ==
    \A k \in Emails :
        Res(k).out = "Rejected" => Res(k).reported = Res(k).after

\* C15: once a request has answered Authenticated or Locked and no request
\* for the identity is in flight, the identity has neither a stored count nor a
\* stored instant.
C15_ClearingIsComplete ==
    \A k \in Emails :
        (Res(k).out \in {"Authenticated", "Locked"} /\ Quiet(k)) =>
            /\ k \notin DOMAIN loginAttempts
            /\ k \notin DOMAIN lastLoginAttemptTime

\* C18: the instant stored for an identity never moves backwards, whatever
\* the order in which overlapping failing requests start and answer.
C18_TimestampMonotonic ==
    [][ \A k \in Emails :
            (k \in DOMAIN lastLoginAttemptTime /\ k \in DOMAIN lastLoginAttemptTime') =>
                lastLoginAttemptTime'[k] >= lastLoginAttemptTime[k]
      ]_vars

\* C16: while a request of identity A waits in its PENALTY_DELAY, a login for
\* another identity B can start and, once at the verifier, can be answered at
\* once; a request of B that started and was answered, alone for B, within
\* the delay of A was at the verifier, and its answer and the count it left are
\* those its own record gives: a failure stores one more than the count it
\* found (one, after a staleness reset), a success stores none.
C16_DelayExcludesNobody ==
    /\ \A r \in Reqs, B \in Emails :
          (/\ WaitingBeside(toLowerCase(B), clock)
           /\ ~InFlight(r)
           /\ \A q \in Reqs : q < r => InFlight(q)
           /\ ticks < MaxTicks) =>
              ENABLED StartLogin(r, B)
    /\ \A r \in Reqs :
          (req[r].pc = "verify" /\ WaitingBeside(req[r].key, clock)) =>
              /\ ENABLED VerifyWrong(r)
              /\ ENABLED VerifyOk(r)
    /\ \A B \in Emails :
          (Res(B).beside /\ Res(B).alone) =>
              /\ Res(B).out \in {"Rejected", "Authenticated", "Error"}
              /\ Res(B).before < MAX_LOGIN_ATTEMPTS
              /\ Res(B).out = "Rejected" =>
                    Res(B).after = (IF Res(B).stale THEN 0 ELSE Res(B).before) + 1
              /\ Res(B).out = "Authenticated" => Res(B).after = 0

C16_Witness ==
    \E q \in Reqs, B \in Emails :
        /\ req[q].pc = "delay"
        /\ clock < req[q].wake
        /\ req[q].key # B
        /\ Quiet(B)
        /\ Res(B).beside
        /\ Res(B).out = "Rejected"
        /\ Res(B).before > 0
        /\ loginAttempts[B] = Res(B).before + 1
        /\ loginAttempts[req[q].key] = req[q].attempts

\* C19: when the last createTransfer call returned null for a sender or a
\* recipient that does not exist, the collection has no document of that call;
\* and every document of the collection has a sender and a recipient that
\* exist (it belongs to a call that returned true).
C19_NoTransferOnError ==
    /\ (/\ lastTransfer.returned = "null"
         /\ (lastTransfer.id \notin Users \/ lastTransfer.toUserId \notin Users)) =>
            \A t \in transfers : t.transferId # lastTransfer.transferId
    /\ \A t \in transfers : t.fromUser \in Users /\ t.toUser \in Users

\* C17: with timers and verifier replies that are not postponed for ever,
\* every login request in flight finishes; the step that finishes it gives one
\* of Authenticated, Rejected and Locked; and a request on the lockout path
\* finishes only after its delay, with Locked and the count cleared.
C17_EveryRequestFinishes ==
    /\ \A r \in Reqs : InFlight(r) ~> ~InFlight(r)
    /\ [][ \A r \in Reqs :
              (InFlight(r) /\ ~InFlight(r)') =>
                  /\ lastResult'[req[r].key].out \in {"Authenticated", "Rejected", "Locked"}
                  /\ req[r].pc = "delay" =>
                        /\ clock >= req[r].wake
                        /\ lastResult'[req[r].key].out = "Locked"
                        /\ req[r].key \notin DOMAIN loginAttempts'
        ]_vars

====
